---- MODULE Spec2Model ----
(***************************************************************************)
(* Model of the Ai-Route-Optimizer frontend.                               *)
(*                                                                         *)
(*  - the route-planning page  (frontend/src/pages/AIRouteOptimizer.jsx):  *)
(*    form state, the optimize request/response cycle and the imperative   *)
(*    synchronisation of the Leaflet map (markersRef, routeLayersRef);     *)
(*  - the two auth state holders (frontend/src/context/AuthContext.jsx,    *)
(*    called implementation "A", and unnamed/part_000, implementation      *)
(*    "B") together with the axios client of frontend/src/api/api.js;      *)
(*  - the login form and the route shell (frontend/src/App.jsx).           *)
(*                                                                         *)
(* One React commit (event handler or promise continuation, the re-render  *)
(* and the effects whose dependencies changed) is one atomic action.       *)
(* Numbers are held in units of 1e-4 degree (latitude 90 is 900000) and    *)
(* traffic levels in tenths (0.7 is 7).                                    *)
(***************************************************************************)
EXTENDS Integers, Sequences, FiniteSets, Bags, TLC

VARIABLES
    \* ---- route-planning page (AIRouteOptimizer.jsx) ----
    startCoords,      \* useState {latitude, longitude}, form strings
    endCoords,        \* useState {latitude, longitude}
    waypoints,        \* useState [], sequence of {latitude, longitude}
    routeResults,     \* useState null, the current result payload
    loading,          \* useState false
    mapLoaded,        \* useState false; mapInstanceRef is set in the same step
    markersRef,       \* useRef []: handles of the markers added to the map
    routeLayersRef,   \* useRef []: handles of route lines and traffic indicators
    mapLayers,        \* the overlays the Leaflet map currently holds (a bag)
    inflight,         \* /optimize-route requests sent and not yet settled
    nextId,           \* number of /optimize-route requests issued so far
    callBudget,       \* how many optimizeRoute calls a behaviour may issue: a
                      \* bound of the model, fixed by the initial state
    pageLast,         \* the last page operation and its outcome (history)
    liveTraffic,      \* useState null, the live traffic data displayed
    trafficInflight   \* /traffic/live requests sent and not yet settled

pageVars == <<startCoords, endCoords, waypoints, routeResults, loading, mapLoaded,
              markersRef, routeLayersRef, mapLayers, inflight, nextId, callBudget,
              pageLast, liveTraffic, trafficInflight>>

VARIABLES
    \* ---- auth state holder (AuthContext.jsx = "A", unnamed/part_000 = "B") ----
    impl,             \* which of the two AuthProvider implementations is mounted
    user,             \* useState(null)
    token,            \* useState(localStorage.getItem("token"))
    authLoading,      \* useState(true), the provider's loading flag
    lsToken,          \* localStorage key "token"
    lsUser,           \* localStorage key "user"
    defaultsAuth,     \* A: apiClient.defaults.headers.common["Authorization"]
    mounted,          \* the provider's mount effect has run
    authInflight,     \* auth requests sent and not yet settled
    sessionCleared,   \* the token was cleared and no login/signup succeeded since (history)
    lastSent,         \* the last request sent and its Authorization header (history)
    authLast          \* the last auth operation and its outcome (history)

VARIABLES
    \* ---- login form (Login of App.jsx) ----
    loginForm,        \* useState: loading, message, messageType; and the path
                      \* handed to navigate()
    formAwaits        \* id of the login request handleSubmit awaits, 0 if none

formVars == <<loginForm, formAwaits>>

authVars == <<impl, user, token, authLoading, lsToken, lsUser, defaultsAuth, mounted,
              authInflight, sessionCleared, lastSent, authLast, loginForm, formAwaits>>

\* the auth state a request of the page leaves alone: all but the history
\* of the request sent last
authState == <<impl, user, token, authLoading, lsToken, lsUser, defaultsAuth, mounted,
               authInflight, sessionCleared, authLast, loginForm, formAwaits>>

vars == <<pageVars, authVars>>

----------------------------------------------------------------------------
(* Bounds of the model *)

\* optimize requests issued in one behaviour
MaxRequests == 2
\* optimize requests issued in one behaviour of the specification of
\* overlapping requests
MaxOverlapRequests == 3
\* waypoint rows of the form
MaxWaypoints == 1
\* routes in a backend payload
MaxRoutes == 2

\* JavaScript null / undefined
Null == "<null>"

\* parseFloat's NaN, an integer no coordinate takes
NaN == 99999999

----------------------------------------------------------------------------
(* Form values and their conversions *)

\* what a user types in the type="number" inputs of the start/end fields
TypedValues == {"", "45.000000"}
\* what a user types in a waypoint row
WaypointValues == {"", "45.000000"}
\* positions a map click reports (e.latlng), in 1e-4 degree
ClickPoints == {<<450000, 450000>>}

\* sampleLocations.mumbai / sampleLocations.pune
SampleStart == [latitude |-> "19.076", longitude |-> "72.8777"]
SampleEnd == [latitude |-> "18.5204", longitude |-> "73.8567"]

EmptyCoords == [latitude |-> "", longitude |-> ""]

\* JavaScript truthiness of a form value: only the empty string is falsy
Truthy(s) == s # ""

\* parseFloat on the values the form can hold
parseFloat(s) ==
    CASE s = "45" -> 450000
      [] s = "100" -> 1000000
      [] s = "181" -> 1810000
      [] s = "45.000000" -> 450000
      [] s = "19.076" -> 190760
      [] s = "72.8777" -> 728777
      [] s = "18.5204" -> 185204
      [] s = "73.8567" -> 738567
      [] OTHER -> NaN

\* Number.prototype.toFixed(6) on the click positions
toFixed6(n) ==
    CASE n = 450000 -> "45.000000"
      [] OTHER -> "NaN"

isNaN(x) == x = NaN

----------------------------------------------------------------------------
(* Result payloads *)

\* routeResults before any response, and after a response whose JSON body is
\* null: setRouteResults(null)
NullResult == [kind |-> "null", src |-> "", routes |-> <<>>, rec |-> <<>>]

\* routeResults?.routes is truthy (an empty array is truthy)
HasRoutes(res) == res.kind = "result"

\* one entry of traffic_data
Traffic(level, hasCoords) == [level |-> level, hasCoords |-> hasCoords]

\* one entry of routes: avg is <<>> when ai_analysis.avg_traffic_level is
\* missing, geometry holds [lng, lat] pairs and is <<>> when missing
Route(avg, traffic, geometry) == [avg |-> avg, traffic |-> traffic, geometry |-> geometry]

\* the demo data of the catch block, built from the submitted start and end
mockRoutes(startLat, startLng, endLat, endLng) ==
    << Route(<<3>>,
             <<Traffic(2, TRUE), Traffic(4, TRUE)>>,
             << <<startLng, startLat>>, <<endLng, endLat>> >>),
       Route(<<5>>,
             <<Traffic(6, TRUE)>>,
             << <<startLng, startLat>>, <<startLng + 1000, startLat + 500>>,
                <<endLng, endLat>> >>) >>

MockResult(req) ==
    [kind |-> "result", src |-> "mock",
     routes |-> mockRoutes(req.startLat, req.startLng, req.endLat, req.endLng),
     rec |-> <<0>>]

\* the routes a backend payload carries in this model: the i-th route of a
\* payload has a fixed shape (heavy traffic with one indicator, no analysis,
\* moderate traffic), none carries a geometry
BackendRoute(i) ==
    CASE i % 3 = 1 -> Route(<<8>>, <<Traffic(9, TRUE)>>, <<>>)
      [] i % 3 = 2 -> Route(<<>>, <<>>, <<>>)
      [] OTHER -> Route(<<5>>, <<Traffic(1, FALSE)>>, <<>>)

\* values of ai_recommendations.recommended_route_index in the payloads the
\* backend answers with: the first route
RecChoices == {<<0>>}

BackendResult(n, rec) ==
    [kind |-> "result", src |-> "backend",
     routes |-> [i \in 1..n |-> BackendRoute(i)], rec |-> rec]

\* what response.json() of a 200 response can be: JSON null,
\* or an object with ai_recommendations, traffic_analysis and a routes list
\* (the results panel dereferences all three while rendering)
SuccessBodies ==
    {NullResult} \cup {BackendResult(n, rec) : n \in 0..MaxRoutes, rec \in RecChoices}

----------------------------------------------------------------------------
(* The Leaflet map and the two handle lists *)

Overlay(kind, role, idx, sub, color, weight, dashed, lat, lng) ==
    [kind |-> kind, role |-> role, idx |-> idx, sub |-> sub,
     color |-> color, weight |-> weight, dashed |-> dashed, lat |-> lat, lng |-> lng]

\* L.marker([lat, lng], {icon}) of addMarkersToMap; idx is the label index + 1
Marker(role, idx, c) ==
    Overlay("marker", role, idx, 0, "", 0, FALSE, c.latitude, c.longitude)

RECURSIVE SeqToBag(_)
SeqToBag(s) == IF s = <<>> THEN EmptyBag ELSE SetToBag({Head(s)}) (+) SeqToBag(Tail(s))

\* the map state the helpers below transform
MapState(map, markers, layers) == [map |-> map, markers |-> markers, layers |-> layers]

\* a clearMapData that empties routeLayersRef without taking its layers off
\* the map
clearMapData_ForgetsRoutes(M, loaded) ==
    IF ~loaded THEN M
    ELSE MapState(M.map (-) SeqToBag(M.markers), <<>>, <<>>)

clearMapData(M, loaded) ==
    IF ~loaded THEN M
    ELSE MapState((M.map (-) SeqToBag(M.markers)) (-) SeqToBag(M.layers), <<>>, <<>>)

RECURSIVE WaypointMarkers(_, _)
WaypointMarkers(wps, i) ==
    IF i > Len(wps) THEN <<>>
    ELSE (IF Truthy(wps[i].latitude) /\ Truthy(wps[i].longitude)
          THEN <<Marker("waypoint", i, wps[i])>> ELSE <<>>)
         \o WaypointMarkers(wps, i + 1)

addMarkersToMap(M, loaded, start, end, wps) ==
    IF ~loaded THEN M
    ELSE LET C == clearMapData(M, loaded)
             new == (IF Truthy(start.latitude) /\ Truthy(start.longitude)
                     THEN <<Marker("start", 0, start)>> ELSE <<>>)
                    \o (IF Truthy(end.latitude) /\ Truthy(end.longitude)
                        THEN <<Marker("end", 0, end)>> ELSE <<>>)
                    \o WaypointMarkers(wps, 1)
         IN MapState(C.map (+) SeqToBag(new), C.markers \o new, C.layers)

\* route.ai_analysis?.avg_traffic_level || 0
trafficLevel(route) == IF route.avg = <<>> THEN 0 ELSE route.avg[1]

\* routeResults?.ai_recommendations?.recommended_route_index === index
isRecommended(res, index) == res.rec = <<index>>

\* the colour rule with thresholds that include 0.7 and 0.4
routeColor_Inclusive(res, route, index) ==
    IF isRecommended(res, index) THEN "#10b981"
    ELSE IF trafficLevel(route) >= 7 THEN "#ef4444"
    ELSE IF trafficLevel(route) >= 4 THEN "#f59e0b"
    ELSE "#3b82f6"

routeColor(res, route, index) ==
    IF isRecommended(res, index) THEN "#10b981"
    ELSE IF trafficLevel(route) > 7 THEN "#ef4444"
    ELSE IF trafficLevel(route) > 4 THEN "#f59e0b"
    ELSE "#3b82f6"

\* a polyline whose weight and dash pattern follow the traffic colour
\* instead of the recommendation: every green, yellow or red line is solid
routeLine_SolidUnlessBlue(res, route, index) ==
    Overlay("line", "", index, 0, routeColor(res, route, index),
            IF routeColor(res, route, index) # "#3b82f6" THEN 6 ELSE 4,
            routeColor(res, route, index) = "#3b82f6", "", "")

routeLine(res, route, index) ==
    Overlay("line", "", index, 0, routeColor(res, route, index),
            IF isRecommended(res, index) THEN 6 ELSE 4,
            ~isRecommended(res, index), "", "")

trafficColor(t) ==
    IF t.level > 7 THEN "#ef4444" ELSE IF t.level > 4 THEN "#f59e0b" ELSE "#10b981"

RECURSIVE trafficMarkers(_, _, _, _)
trafficMarkers(res, route, index, k) ==
    IF k > Len(route.traffic) THEN <<>>
    ELSE (IF route.traffic[k].hasCoords
          THEN <<Overlay("traffic", "", index, k - 1,
                         trafficColor(route.traffic[k]), 2, FALSE, "", "")>>
          ELSE <<>>)
         \o trafficMarkers(res, route, index, k + 1)

\* the overlays routes.forEach pushes, route by route, from position i on
RECURSIVE routeOverlays(_, _)
routeOverlays(res, i) ==
    IF i > Len(res.routes) THEN <<>>
    ELSE <<routeLine(res, res.routes[i], i - 1)>>
         \o trafficMarkers(res, res.routes[i], i - 1, 1)
         \o routeOverlays(res, i + 1)

\* drawRoutesOnMap: the layers of routeLayersRef leave the map, then one line
\* per route and its traffic indicators are added and recorded
drawRoutesOnMap(M, loaded, res) ==
    IF ~loaded \/ ~HasRoutes(res) THEN M
    ELSE LET new == routeOverlays(res, 1)
         IN MapState((M.map (-) SeqToBag(M.layers)) (+) SeqToBag(new), M.markers, new)

\* the two map effects, run in declaration order after a commit:
\*   useEffect [startCoords, endCoords, waypoints, mapLoaded]
\*   useEffect [routeResults, mapLoaded]
mapEffects(M, loaded, start, end, wps, res, coordsChanged, resultsChanged) ==
    LET m1 == IF coordsChanged /\ loaded
              THEN addMarkersToMap(M, loaded, start, end, wps) ELSE M
    IN IF resultsChanged /\ loaded /\ HasRoutes(res)
       THEN drawRoutesOnMap(m1, loaded, res) ELSE m1

CurrentMap == MapState(mapLayers, markersRef, routeLayersRef)

----------------------------------------------------------------------------
(* The auth state holder: values *)

\* the session the backend answers a successful login or signup with
Sessions == {[token |-> "t1", user |-> "u1"], [token |-> "t2", user |-> "u2"]}

Users == {s.user : s \in Sessions}

\* the user /auth/verify answers with for an accepted token
OwnerOf(t) == (CHOOSE s \in Sessions : s.token = t).user

\* what the key "token" holds when the page is first loaded
StoredTokens == {Null, "t1"}

\* JSON.stringify of a user object
JSONstringify(u) == "{\"user\":\"" \o u \o "\"}"

\* a value of the key "user" that is not JSON
Malformed == "{not json"

\* what JSON.parse throws on text that is not JSON
SyntaxError == "<SyntaxError>"

\* JSON.parse of a stored user
JSONparse(s) ==
    IF \E u \in Users : JSONstringify(u) = s
    THEN CHOOSE u \in Users : JSONstringify(u) = s
    ELSE SyntaxError

\* what the key "user" holds when the page is first loaded
StoredUsers == {Null, JSONstringify("u1"), Malformed}

\* the value of an Authorization header
Bearer(t) == "Bearer " \o t

\* a request of the auth state holder that has not settled
AuthRequest(id, kind, auth, tok, onLoad) ==
    [id |-> id, kind |-> kind, auth |-> auth, tok |-> tok, onLoad |-> onLoad]

\* an id no pending request carries
FreshId(pending) ==
    CHOOSE i \in 1..(Cardinality(pending) + 1) : i \notin {r.id : r \in pending}

\* history: the request sent last, its Authorization header, and whether
\* the session token was cleared when it was sent
Sent(kind, auth, cleared) == [kind |-> kind, auth |-> auth, afterClear |-> cleared]

NoRequest == Sent("none", Null, FALSE)

\* history: the auth operation that completed last; tok and usr are the
\* token and user it was given (a response's, or the ones held before)
\* what login / signup hand to their caller: a returned value or a thrown
\* one, with its success and message properties (Null when it has none)
Result(how, success, message) == [how |-> how, success |-> success, message |-> message]

NoResult == Result("none", Null, Null)

AuthLast(op, tok, usr, onLoad) ==
    [op |-> op, tok |-> tok, usr |-> usr, onLoad |-> onLoad, result |-> NoResult]

\* the completed operation together with what it handed to its caller
Outcome(last, result) == [last EXCEPT !.result = result]

\* the message property of the body of a refusal: absent or the backend's text
RefusalMessages == {Null, "Invalid credentials"}

\* the text of `new Error(...)` that version A throws without a response
A_fallbackMessage(kind) == IF kind = "login" THEN "Login failed" ELSE "Signup failed"

\* the texts of version B's results
B_successMessage(kind) ==
    IF kind = "login" THEN "Login successful!" ELSE "Account created successfully!"

B_refusalMessage(kind, msg) ==
    IF msg # Null THEN msg ELSE IF kind = "login" THEN "Login failed" ELSE "Signup failed"

B_networkMessage == "Network error. Please try again."

\* the state of the login form: loading, message and messageType are its
\* useState values, navigateTo is the path its success branch hands to
\* navigate() (Null while it has not navigated)
LoginForm(ld, message, messageType, navigateTo) ==
    [loading |-> ld, message |-> message, messageType |-> messageType,
     navigateTo |-> navigateTo]

\* useState(false), useState(''), useState('')
LoginFormInit == LoginForm(FALSE, "", "", Null)

\* handleSubmit after `await login(...)`: a thrown value rejects the await
\* and nothing after it runs; a returned value is tested for its success
\* property and its message property is displayed
handleSubmitResumed(form, result) ==
    IF result.how = "thrown" THEN form
    ELSE IF result.success = "true"
    THEN LoginForm(FALSE, result.message, "success", "/dashboard")
    ELSE LoginForm(FALSE, result.message, "error", form.navigateTo)

\* the auth state holder mounted with nothing stored, which the
\* specifications of the route-planning page keep fixed
AuthIdle ==
    /\ impl = "A"
    /\ user = Null
    /\ token = Null
    /\ authLoading = FALSE
    /\ lsToken = Null
    /\ lsUser = Null
    /\ defaultsAuth = Null
    /\ mounted = TRUE
    /\ authInflight = {}
    /\ sessionCleared = FALSE
    /\ lastSent = NoRequest
    /\ authLast = AuthLast("init", Null, Null, FALSE)
    /\ loginForm = LoginFormInit
    /\ formAwaits = 0

----------------------------------------------------------------------------
(* The route-planning page: initial state and operations *)

Last(op, rid) == [op |-> op, rid |-> rid]

\* the page as constructed: empty form, no result, no map
PageFresh ==
    /\ startCoords = EmptyCoords
    /\ endCoords = EmptyCoords
    /\ waypoints = <<>>
    /\ routeResults = NullResult
    /\ loading = FALSE
    /\ mapLoaded = FALSE
    /\ markersRef = <<>>
    /\ routeLayersRef = <<>>
    /\ mapLayers = EmptyBag
    /\ inflight = {}
    /\ nextId = 0
    /\ callBudget = MaxRequests
    /\ pageLast = Last("init", 0)
    /\ liveTraffic = Null
    /\ trafficInflight = {}

PageInit == PageFresh /\ AuthIdle

\* the commit that follows a state change: the map effects whose
\* dependencies changed run against the new state
SyncMap(loaded, start, end, wps, res, coordsChanged, resultsChanged) ==
    LET m == mapEffects(CurrentMap, loaded, start, end, wps, res,
                        coordsChanged, resultsChanged)
    IN /\ mapLayers' = m.map
       /\ markersRef' = m.markers
       /\ routeLayersRef' = m.layers

\* setupMap: the Leaflet script has loaded, the map instance is created and
\* setMapLoaded(true) re-runs both map effects
setupMap ==
    /\ ~mapLoaded
    /\ mapLoaded' = TRUE
    /\ SyncMap(TRUE, startCoords, endCoords, waypoints, routeResults, TRUE, TRUE)
    /\ pageLast' = Last("map_loaded", 0)
    /\ UNCHANGED <<startCoords, endCoords, waypoints, routeResults, loading,
                   inflight, nextId, callBudget, liveTraffic, trafficInflight, authVars>>

\* onChange of the start latitude / longitude inputs
EditStart ==
    \E f \in {"latitude", "longitude"}, v \in TypedValues :
        /\ v # startCoords[f]
        /\ startCoords' = [startCoords EXCEPT ![f] = v]
        /\ SyncMap(mapLoaded, startCoords', endCoords, waypoints, routeResults,
                   TRUE, FALSE)
        /\ pageLast' = Last("edit", 0)
        /\ UNCHANGED <<endCoords, waypoints, routeResults, loading, mapLoaded,
                       inflight, nextId, callBudget, liveTraffic, trafficInflight, authVars>>

\* onChange of the end latitude / longitude inputs
EditEnd ==
    \E f \in {"latitude", "longitude"}, v \in TypedValues :
        /\ v # endCoords[f]
        /\ endCoords' = [endCoords EXCEPT ![f] = v]
        /\ SyncMap(mapLoaded, startCoords, endCoords', waypoints, routeResults,
                   TRUE, FALSE)
        /\ pageLast' = Last("edit", 0)
        /\ UNCHANGED <<startCoords, waypoints, routeResults, loading, mapLoaded,
                       inflight, nextId, callBudget, liveTraffic, trafficInflight, authVars>>

addWaypoint ==
    /\ Len(waypoints) < MaxWaypoints
    /\ waypoints' = Append(waypoints, EmptyCoords)
    /\ SyncMap(mapLoaded, startCoords, endCoords, waypoints', routeResults,
               TRUE, FALSE)
    /\ pageLast' = Last("edit", 0)
    /\ UNCHANGED <<startCoords, endCoords, routeResults, loading, mapLoaded,
                   inflight, nextId, callBudget, liveTraffic, trafficInflight, authVars>>

removeWaypoint ==
    \E index \in 1..Len(waypoints) :
        /\ waypoints' = SubSeq(waypoints, 1, index - 1)
                         \o SubSeq(waypoints, index + 1, Len(waypoints))
        /\ SyncMap(mapLoaded, startCoords, endCoords, waypoints', routeResults,
                   TRUE, FALSE)
        /\ pageLast' = Last("edit", 0)
        /\ UNCHANGED <<startCoords, endCoords, routeResults, loading, mapLoaded,
                       inflight, nextId, callBudget, liveTraffic, trafficInflight, authVars>>

updateWaypoint ==
    \E index \in 1..Len(waypoints), f \in {"latitude", "longitude"},
       v \in WaypointValues :
        /\ v # waypoints[index][f]
        /\ waypoints' = [waypoints EXCEPT ![index][f] = v]
        /\ SyncMap(mapLoaded, startCoords, endCoords, waypoints', routeResults,
                   TRUE, FALSE)
        /\ pageLast' = Last("edit", 0)
        /\ UNCHANGED <<startCoords, endCoords, routeResults, loading, mapLoaded,
                       inflight, nextId, callBudget, liveTraffic, trafficInflight, authVars>>

loadSampleRoute ==
    /\ startCoords' = SampleStart
    /\ endCoords' = SampleEnd
    /\ waypoints' = <<>>
    /\ SyncMap(mapLoaded, startCoords', endCoords', waypoints', routeResults,
               TRUE, FALSE)
    /\ pageLast' = Last("edit", 0)
    /\ UNCHANGED <<routeResults, loading, mapLoaded, inflight, nextId, callBudget, liveTraffic, trafficInflight, authVars>>

\* a click handler that tests the longitude of the start and end
\* coordinates instead of their latitude
handleMapClick_TestsLongitude ==
    \E p \in ClickPoints :
        LET c == [latitude |-> toFixed6(p[1]), longitude |-> toFixed6(p[2])]
        IN /\ mapLoaded
           /\ IF ~Truthy(startCoords.longitude)
              THEN /\ startCoords' = c
                   /\ endCoords' = endCoords
                   /\ SyncMap(mapLoaded, c, endCoords, waypoints, routeResults,
                              TRUE, FALSE)
                   /\ pageLast' = Last("click", 0)
              ELSE IF ~Truthy(endCoords.longitude)
              THEN /\ endCoords' = c
                   /\ startCoords' = startCoords
                   /\ SyncMap(mapLoaded, startCoords, c, waypoints, routeResults,
                              TRUE, FALSE)
                   /\ pageLast' = Last("click", 0)
              ELSE /\ UNCHANGED <<startCoords, endCoords, mapLayers, markersRef,
                                  routeLayersRef>>
                   /\ pageLast' = Last("click", 0)
           /\ UNCHANGED <<waypoints, routeResults, loading, mapLoaded, inflight,
                          nextId, callBudget, liveTraffic, trafficInflight, authVars>>

\* the click handler registered on the map instance
handleMapClick ==
    \E p \in ClickPoints :
        LET c == [latitude |-> toFixed6(p[1]), longitude |-> toFixed6(p[2])]
        IN /\ mapLoaded
           /\ IF ~Truthy(startCoords.latitude)
              THEN /\ startCoords' = c
                   /\ endCoords' = endCoords
                   /\ SyncMap(mapLoaded, c, endCoords, waypoints, routeResults,
                              TRUE, FALSE)
                   /\ pageLast' = Last("click", 0)
              ELSE IF ~Truthy(endCoords.latitude)
              THEN /\ endCoords' = c
                   /\ startCoords' = startCoords
                   /\ SyncMap(mapLoaded, startCoords, c, waypoints, routeResults,
                              TRUE, FALSE)
                   /\ pageLast' = Last("click", 0)
              ELSE /\ UNCHANGED <<startCoords, endCoords, mapLayers, markersRef,
                                  routeLayersRef>>
                   /\ pageLast' = Last("click", 0)
           /\ UNCHANGED <<waypoints, routeResults, loading, mapLoaded, inflight,
                          nextId, callBudget, liveTraffic, trafficInflight, authVars>>

----------------------------------------------------------------------------
(* optimizeRoute *)

\* the validation without its longitude range check
validation_NoLngCheck(start, end) ==
    LET startLat == parseFloat(start.latitude)
        startLng == parseFloat(start.longitude)
        endLat == parseFloat(end.latitude)
        endLng == parseFloat(end.longitude)
    IN IF ~Truthy(start.latitude) \/ ~Truthy(start.longitude)
          \/ ~Truthy(end.latitude) \/ ~Truthy(end.longitude)
       THEN "empty"
       ELSE IF isNaN(startLat) \/ isNaN(startLng) \/ isNaN(endLat) \/ isNaN(endLng)
       THEN "nan"
       ELSE IF startLat < -900000 \/ startLat > 900000
               \/ endLat < -900000 \/ endLat > 900000
       THEN "lat"
       ELSE "ok"

\* the validation at the head of optimizeRoute: which check rejects the
\* input, or "ok"
validation(start, end) ==
    LET startLat == parseFloat(start.latitude)
        startLng == parseFloat(start.longitude)
        endLat == parseFloat(end.latitude)
        endLng == parseFloat(end.longitude)
    IN IF ~Truthy(start.latitude) \/ ~Truthy(start.longitude)
          \/ ~Truthy(end.latitude) \/ ~Truthy(end.longitude)
       THEN "empty"
       ELSE IF isNaN(startLat) \/ isNaN(startLng) \/ isNaN(endLat) \/ isNaN(endLng)
       THEN "nan"
       ELSE IF startLat < -900000 \/ startLat > 900000
               \/ endLat < -900000 \/ endLat > 900000
       THEN "lat"
       ELSE IF startLng < -1800000 \/ startLng > 1800000
               \/ endLng < -1800000 \/ endLng > 1800000
       THEN "lng"
       ELSE "ok"

\* waypoints.filter(wp => wp.latitude && wp.longitude).map(parseFloat ...)
RECURSIVE requestWaypoints(_)
requestWaypoints(wps) ==
    IF wps = <<>> THEN <<>>
    ELSE (IF Truthy(Head(wps).latitude) /\ Truthy(Head(wps).longitude)
          THEN << <<parseFloat(Head(wps).latitude), parseFloat(Head(wps).longitude)>> >>
          ELSE <<>>)
         \o requestWaypoints(Tail(wps))

\* the body of the POST /optimize-route request (departure_time, vehicle_type
\* and avoid_traffic are constants of no consequence here)
requestData(start, end, wps) ==
    [startLat |-> parseFloat(start.latitude), startLng |-> parseFloat(start.longitude),
     endLat |-> parseFloat(end.latitude), endLng |-> parseFloat(end.longitude),
     waypoints |-> requestWaypoints(wps)]

\* a pending call of optimizeRoute: the id of the call and the constants
\* startLat, startLng, endLat, endLng its continuation closes over
PendingCall(id, start, end) ==
    [id |-> id,
     startLat |-> parseFloat(start.latitude), startLng |-> parseFloat(start.longitude),
     endLat |-> parseFloat(end.latitude), endLng |-> parseFloat(end.longitude)]

\* optimizeRoute with setLoading(true) ahead of the validation: a rejected
\* input leaves loading true
optimizeRoute_LoadingFirst ==
    LET v == validation(startCoords, endCoords)
    IN IF v # "ok"
       THEN /\ pageLast' = Last("rejected", 0)
            /\ loading' = TRUE
            /\ UNCHANGED <<startCoords, endCoords, waypoints, routeResults,
                           mapLoaded, markersRef, routeLayersRef, mapLayers,
                           inflight, nextId, callBudget, liveTraffic, trafficInflight, authVars>>
       ELSE /\ nextId < callBudget
            /\ nextId' = nextId + 1
            /\ loading' = TRUE
            /\ inflight' = inflight \cup
                   {PendingCall(nextId + 1, startCoords, endCoords)}
            /\ pageLast' = Last("sent", nextId + 1)
            /\ lastSent' = Sent("optimize", Null, sessionCleared)
            /\ UNCHANGED <<startCoords, endCoords, waypoints, routeResults,
                           mapLoaded, markersRef, routeLayersRef, mapLayers,
                           callBudget, liveTraffic, trafficInflight, authState>>

\* optimizeRoute up to the await of fetch: validate, setLoading(true), send
optimizeRoute ==
    LET v == validation(startCoords, endCoords)
    IN IF v # "ok"
       THEN /\ pageLast' = Last("rejected", 0)
            /\ UNCHANGED <<startCoords, endCoords, waypoints, routeResults, loading,
                           mapLoaded, markersRef, routeLayersRef, mapLayers,
                           inflight, nextId, callBudget, liveTraffic, trafficInflight, authVars>>
       ELSE /\ nextId < callBudget
            /\ nextId' = nextId + 1
            /\ loading' = TRUE
            /\ inflight' = inflight \cup
                   {PendingCall(nextId + 1, startCoords, endCoords)}
            /\ pageLast' = Last("sent", nextId + 1)
            /\ lastSent' = Sent("optimize", Null, sessionCleared)
            /\ UNCHANGED <<startCoords, endCoords, waypoints, routeResults,
                           mapLoaded, markersRef, routeLayersRef, mapLayers,
                           callBudget, liveTraffic, trafficInflight, authState>>

\* the Optimize button: disabled={loading}
OptimizeClick ==
    /\ ~loading
    /\ optimizeRoute

\* a Re-optimize button disabled while loading, like the Optimize button
ReoptimizeClick_Guarded ==
    /\ ~loading
    /\ routeResults # NullResult
    /\ optimizeRoute

\* the Re-optimize button of the results panel, rendered while routeResults
\* is truthy; it carries no disabled attribute
ReoptimizeClick ==
    /\ routeResults # NullResult
    /\ optimizeRoute

\* the fetch resolved with response.ok and a JSON body: setRouteResults(data),
\* then finally setLoading(false)
responseApplied(bodies) ==
    \E req \in inflight, data \in bodies :
        /\ inflight' = inflight \ {req}
        /\ routeResults' = data
        /\ loading' = FALSE
        /\ SyncMap(mapLoaded, startCoords, endCoords, waypoints, data, FALSE, TRUE)
        /\ pageLast' = Last("ok", req.id)
        /\ UNCHANGED <<startCoords, endCoords, waypoints, mapLoaded, nextId, callBudget, liveTraffic, trafficInflight, authVars>>

\* a 200 response with one of the bodies of SuccessBodies
OptimizeSucceeded == responseApplied(SuccessBodies)

\* a catch block that alerts and leaves the result as it is
OptimizeFailed_NoFallback ==
    \E req \in inflight :
        /\ inflight' = inflight \ {req}
        /\ loading' = FALSE
        /\ pageLast' = Last("failed", req.id)
        /\ UNCHANGED <<startCoords, endCoords, waypoints, routeResults, mapLoaded,
                       markersRef, routeLayersRef, mapLayers, nextId, callBudget, liveTraffic, trafficInflight, authVars>>

\* the text the catch block alerts: the message of a rejected fetch
\* contains "fetch", the Error thrown for a non-OK response starts with HTTP
alertText(kind) ==
    IF kind = "network"
    THEN "Cannot connect to backend server. Please make sure the backend is running on http://localhost:8000"
    ELSE "Error: HTTP 500: Internal Server Error - "

\* a catch block that falls back to the mock result only when the backend
\* cannot be reached
catchBlock_HttpKeepsResult(req, kind, current) ==
    [routeResults |-> IF kind = "http" THEN current ELSE MockResult(req),
     loading |-> FALSE,
     alert |-> alertText(kind)]

\* what the catch and finally blocks leave behind for a failure of either
\* kind: the alert shown, setRouteResults(mock), setLoading(false)
catchBlock(req, kind, current) ==
    [routeResults |-> MockResult(req), loading |-> FALSE, alert |-> alertText(kind)]

\* the catch block: fetch rejected ("network") or the response was not OK
\* ("http"); alert, setRouteResults(mock), then finally setLoading(false)
OptimizeFailed ==
    \E req \in inflight, kind \in {"network", "http"} :
        /\ inflight' = inflight \ {req}
        /\ routeResults' = catchBlock(req, kind, routeResults).routeResults
        /\ loading' = catchBlock(req, kind, routeResults).loading
        /\ SyncMap(mapLoaded, startCoords, endCoords, waypoints,
                   catchBlock(req, kind, routeResults).routeResults, FALSE, TRUE)
        /\ pageLast' = Last("failed", req.id)
        /\ UNCHANGED <<startCoords, endCoords, waypoints, mapLoaded, nextId, callBudget, liveTraffic, trafficInflight, authVars>>

\* the Clear Map button of the results panel: onClick={clearMapData}
ClearMapClick ==
    /\ routeResults # NullResult
    /\ LET m == clearMapData(CurrentMap, mapLoaded)
       IN /\ mapLayers' = m.map
          /\ markersRef' = m.markers
          /\ routeLayersRef' = m.layers
    /\ pageLast' = Last("clear", 0)
    /\ UNCHANGED <<startCoords, endCoords, waypoints, routeResults, loading,
                   mapLoaded, inflight, nextId, callBudget, liveTraffic, trafficInflight, authVars>>

\* /traffic/live requests pending at once
MaxTrafficInflight == 1

\* what /traffic/live answers with
TrafficData == "live-traffic"

\* the Check Live Traffic button of the results panel: fetchLiveTraffic up
\* to the await of fetch, which sends no header of its own
fetchLiveTraffic ==
    /\ routeResults # NullResult
    /\ Truthy(startCoords.latitude)
    /\ Truthy(startCoords.longitude)
    /\ Cardinality(trafficInflight) < MaxTrafficInflight
    /\ trafficInflight' = trafficInflight \cup
           {[id |-> FreshId(trafficInflight),
             lat |-> parseFloat(startCoords.latitude),
             lon |-> parseFloat(startCoords.longitude)]}
    /\ lastSent' = Sent("traffic", Null, sessionCleared)
    /\ UNCHANGED <<startCoords, endCoords, waypoints, routeResults, loading, mapLoaded,
                   markersRef, routeLayersRef, mapLayers, inflight, nextId, callBudget,
                   pageLast, liveTraffic, authState>>

\* fetchLiveTraffic after the response: setLiveTraffic(data)
LiveTrafficAnswered ==
    /\ \E req \in trafficInflight :
        /\ trafficInflight' = trafficInflight \ {req}
        /\ liveTraffic' = TrafficData
    /\ UNCHANGED <<startCoords, endCoords, waypoints, routeResults, loading, mapLoaded,
                   markersRef, routeLayersRef, mapLayers, inflight, nextId, callBudget,
                   pageLast, authVars>>

\* fetchLiveTraffic's catch: the failure is logged and nothing is set
LiveTrafficFailed ==
    /\ \E req \in trafficInflight :
        trafficInflight' = trafficInflight \ {req}
    /\ UNCHANGED <<startCoords, endCoords, waypoints, routeResults, loading, mapLoaded,
                   markersRef, routeLayersRef, mapLayers, inflight, nextId, callBudget,
                   pageLast, liveTraffic, authVars>>

PageNext ==
    \/ setupMap
    \/ EditStart
    \/ EditEnd
    \/ addWaypoint
    \/ removeWaypoint
    \/ updateWaypoint
    \/ handleMapClick
    \/ OptimizeClick
    \/ ReoptimizeClick
    \/ OptimizeSucceeded
    \/ OptimizeFailed
    \/ ClearMapClick

SpecPage == PageInit /\ [][PageNext]_vars

----------------------------------------------------------------------------
(* optimizeRoute on every form content: the form is drawn from wider sets   *)
(* in the initial state and the operations that submit it are applied       *)

\* what the start and end inputs can hold: empty, in range, a latitude out
\* of range that is a longitude in range, out of range for both
FormValues == {"", "45", "100", "181"}
\* what a waypoint row can hold
WaypointFormValues == {"", "45", "181"}

FormCoords(values) == [latitude : values, longitude : values]

RECURSIVE SeqsUpTo(_, _)
SeqsUpTo(S, n) ==
    IF n = 0 THEN {<<>>}
    ELSE SeqsUpTo(S, n - 1)
         \cup {Append(q, x) : q \in {r \in SeqsUpTo(S, n - 1) : Len(r) = n - 1}, x \in S}

ValidateInit ==
    /\ startCoords \in FormCoords(FormValues)
    /\ endCoords \in FormCoords(FormValues)
    /\ waypoints \in SeqsUpTo(FormCoords(WaypointFormValues), MaxWaypoints)
    /\ routeResults = NullResult
    /\ loading = FALSE
    /\ mapLoaded = FALSE
    /\ markersRef = <<>>
    /\ routeLayersRef = <<>>
    /\ mapLayers = EmptyBag
    /\ inflight = {}
    /\ nextId = 0
    /\ callBudget = MaxRequests
    /\ pageLast = Last("init", 0)
    /\ liveTraffic = Null
    /\ trafficInflight = {}
    /\ AuthIdle

ValidateNext ==
    \/ setupMap
    \/ loadSampleRoute
    \/ handleMapClick
    \/ OptimizeClick
    \/ ReoptimizeClick
    \/ OptimizeSucceeded
    \/ OptimizeFailed
    \/ ClearMapClick

SpecValidate == ValidateInit /\ [][ValidateNext]_vars

----------------------------------------------------------------------------
(* Rejected input: the form holds every kind of value the validation tests, *)
(* text that is not a number included, and is edited between submissions    *)

\* what the start and end fields hold when the page is first looked at:
\* empty, a number in range, text that is not a number, a number out of range
RejectValues == {"", "45", "abc", "181"}

RejectInit ==
    /\ startCoords \in FormCoords(RejectValues)
    /\ endCoords \in FormCoords(RejectValues)
    /\ waypoints = <<>>
    /\ routeResults = NullResult
    /\ loading = FALSE
    /\ mapLoaded = FALSE
    /\ markersRef = <<>>
    /\ routeLayersRef = <<>>
    /\ mapLayers = EmptyBag
    /\ inflight = {}
    /\ nextId = 0
    /\ callBudget = MaxRequests
    /\ pageLast = Last("init", 0)
    /\ liveTraffic = Null
    /\ trafficInflight = {}
    /\ AuthIdle

RejectNext ==
    \/ EditStart
    \/ OptimizeClick
    \/ ReoptimizeClick
    \/ OptimizeSucceeded
    \/ OptimizeFailed

SpecReject == RejectInit /\ [][RejectNext]_vars

----------------------------------------------------------------------------
(* Drawing of route lines on every shape of payload: the backend answers    *)
(* with routes of every traffic level and every recommended index           *)

\* ai_analysis.avg_traffic_level of a route, in tenths: missing, the
\* thresholds 0.4 and 0.7 and a value above each
DrawLevels == {<<>>, <<4>>, <<5>>, <<7>>, <<8>>}

\* ai_recommendations.recommended_route_index: missing, the first route, the
\* second, and an index no route of a payload has
DrawRecs == {<<>>, <<0>>, <<1>>, <<MaxRoutes>>}

DrawRoutes == {Route(avg, <<>>, <<>>) : avg \in DrawLevels}

DrawBodies ==
    {[kind |-> "result", src |-> "backend", routes |-> routes, rec |-> rec] :
        routes \in SeqsUpTo(DrawRoutes, MaxRoutes), rec \in DrawRecs}

\* a 200 response with one of the bodies of DrawBodies
OptimizeAnswered == responseApplied(DrawBodies)

\* the page with the sample route loaded into the form, before or after the
\* map has loaded
DrawInit ==
    /\ startCoords = SampleStart
    /\ endCoords = SampleEnd
    /\ waypoints = <<>>
    /\ routeResults = NullResult
    /\ loading = FALSE
    /\ mapLoaded = FALSE
    /\ markersRef = <<>>
    /\ routeLayersRef = <<>>
    /\ mapLayers = EmptyBag
    /\ inflight = {}
    /\ nextId = 0
    /\ callBudget = MaxRequests
    /\ pageLast = Last("edit", 0)
    /\ liveTraffic = Null
    /\ trafficInflight = {}
    /\ AuthIdle

DrawNext ==
    \/ setupMap
    \/ OptimizeClick
    \/ OptimizeAnswered

SpecDraw == DrawInit /\ [][DrawNext]_vars

----------------------------------------------------------------------------
(* Overlapping requests: the page with the sample route as its only form    *)
(* content, and a larger budget of optimizeRoute calls                      *)

RaceInit ==
    /\ startCoords = EmptyCoords
    /\ endCoords = EmptyCoords
    /\ waypoints = <<>>
    /\ routeResults = NullResult
    /\ loading = FALSE
    /\ mapLoaded = FALSE
    /\ markersRef = <<>>
    /\ routeLayersRef = <<>>
    /\ mapLayers = EmptyBag
    /\ inflight = {}
    /\ nextId = 0
    /\ callBudget = MaxOverlapRequests
    /\ pageLast = Last("init", 0)
    /\ liveTraffic = Null
    /\ trafficInflight = {}
    /\ AuthIdle

RaceNext ==
    \/ setupMap
    \/ loadSampleRoute
    \/ OptimizeClick
    \/ ReoptimizeClick
    \/ OptimizeSucceeded
    \/ OptimizeFailed
    \/ ClearMapClick

SpecRace == RaceInit /\ [][RaceNext]_vars

----------------------------------------------------------------------------
(* The auth state holder: AuthContext.jsx ("A") and its other version in    *)
(* unnamed/part_000 ("B"), and the API client of api.js                     *)

\* pending requests the signed-out forms may add to
MaxAuthInflight == 2

AuthKinds == {"login", "signup"}

\* the page is loaded: both versions construct their state from local storage
AuthInit ==
    /\ PageFresh
    /\ impl \in {"A", "B"}
    /\ lsToken \in StoredTokens
    /\ lsUser \in (IF impl = "A" THEN StoredUsers ELSE {Null})
    /\ user = Null
    /\ token = lsToken
    /\ authLoading = TRUE
    /\ defaultsAuth = Null
    /\ mounted = FALSE
    /\ authInflight = {}
    /\ sessionCleared = FALSE
    /\ lastSent = NoRequest
    /\ authLast = AuthLast("init", Null, Null, FALSE)
    /\ loginForm = LoginFormInit
    /\ formAwaits = 0

\* the page is reloaded: the in-memory state is constructed again from
\* local storage and the responses to the old page's requests are lost
Reload ==
    /\ mounted
    /\ user' = Null
    /\ token' = lsToken
    /\ authLoading' = TRUE
    /\ defaultsAuth' = Null
    /\ mounted' = FALSE
    /\ authInflight' = {}
    /\ authLast' = AuthLast("reload", Null, Null, FALSE)
    /\ loginForm' = LoginFormInit
    /\ formAwaits' = 0
    /\ UNCHANGED <<impl, lsToken, lsUser, sessionCleared, lastSent, pageVars>>

\* the caller of login resumes: when the request that settles is the one
\* the login form awaits, handleSubmit continues with what login handed it
formResumed(req, result) ==
    /\ loginForm' = IF req.id = formAwaits
                     THEN handleSubmitResumed(loginForm, result) ELSE loginForm
    /\ formAwaits' = IF req.id = formAwaits THEN 0 ELSE formAwaits

\* ---- version A ----

\* A: the mount effect without try / catch around JSON.parse: a stored user
\* that is not JSON throws out of the effect before setLoading(false)
A_restoreSession_NoCatch ==
    /\ impl = "A"
    /\ ~mounted
    /\ mounted' = TRUE
    /\ IF lsToken # Null
       THEN /\ token' = lsToken
            /\ defaultsAuth' = Bearer(lsToken)
            /\ user' = IF lsUser # Null /\ JSONparse(lsUser) # SyntaxError
                       THEN JSONparse(lsUser) ELSE user
            /\ authLoading' = (lsUser # Null /\ JSONparse(lsUser) = SyntaxError)
       ELSE /\ authLoading' = FALSE
            /\ UNCHANGED <<token, defaultsAuth, user>>
    /\ authLast' = AuthLast("load", lsToken, Null, TRUE)
    /\ UNCHANGED <<impl, lsToken, lsUser, authInflight, sessionCleared, lastSent, pageVars, formVars>>

\* A: the mount effect restores the session from local storage
A_restoreSession ==
    /\ impl = "A"
    /\ ~mounted
    /\ mounted' = TRUE
    /\ IF lsToken # Null
       THEN /\ token' = lsToken
            /\ defaultsAuth' = Bearer(lsToken)
            /\ user' = IF lsUser # Null /\ JSONparse(lsUser) # SyntaxError
                       THEN JSONparse(lsUser) ELSE user
       ELSE UNCHANGED <<token, defaultsAuth, user>>
    /\ authLoading' = FALSE
    /\ authLast' = AuthLast("load", lsToken, Null, TRUE)
    /\ UNCHANGED <<impl, lsToken, lsUser, authInflight, sessionCleared, lastSent, pageVars, formVars>>

\* A: login / signup post through the provider's apiClient, which sends its
\* default Authorization header
A_loginSend ==
    /\ impl = "A"
    /\ mounted
    /\ Cardinality(authInflight) < MaxAuthInflight
    /\ \E kind \in AuthKinds :
        /\ authInflight' = authInflight \cup
               {AuthRequest(FreshId(authInflight), kind, defaultsAuth, Null, FALSE)}
        /\ lastSent' = Sent(kind, defaultsAuth, sessionCleared)
    /\ UNCHANGED <<impl, user, token, authLoading, lsToken, lsUser, defaultsAuth, mounted,
                   sessionCleared, authLast, pageVars, formVars>>

\* A: login / signup with the token stored but the user not set
A_loginOk_NoUser ==
    /\ impl = "A"
    /\ \E req \in authInflight, s \in Sessions :
        /\ req.kind \in AuthKinds
        /\ lsToken' = s.token
        /\ lsUser' = JSONstringify(s.user)
        /\ token' = s.token
        /\ user' = user
        /\ defaultsAuth' = Bearer(s.token)
        /\ authInflight' = authInflight \ {req}
        /\ sessionCleared' = FALSE
        /\ authLast' = Outcome(AuthLast(req.kind \o "_ok", s.token, s.user, FALSE),
                               Result("returned", Null, Null))
        /\ formResumed(req, Result("returned", Null, Null))
    /\ UNCHANGED <<impl, authLoading, mounted, lastSent, pageVars>>

\* A: the backend answers login / signup with {token, ...userData}
A_loginOk ==
    /\ impl = "A"
    /\ \E req \in authInflight, s \in Sessions :
        /\ req.kind \in AuthKinds
        /\ lsToken' = s.token
        /\ lsUser' = JSONstringify(s.user)
        /\ token' = s.token
        /\ user' = s.user
        /\ defaultsAuth' = Bearer(s.token)
        /\ authInflight' = authInflight \ {req}
        /\ sessionCleared' = FALSE
        /\ authLast' = Outcome(AuthLast(req.kind \o "_ok", s.token, s.user, FALSE),
                               Result("returned", Null, Null))
        /\ formResumed(req, Result("returned", Null, Null))
    /\ UNCHANGED <<impl, authLoading, mounted, lastSent, pageVars>>

\* A: the request fails: login / signup throw the body of the refusal, or
\* an Error when there is no response (network level) or no body
A_loginFailed ==
    /\ impl = "A"
    /\ \E req \in authInflight :
        /\ req.kind \in AuthKinds
        /\ authInflight' = authInflight \ {req}
        /\ \/ \E msg \in RefusalMessages :
                 authLast' = Outcome(AuthLast(req.kind \o "_refused", Null, Null, FALSE),
                                     Result("thrown", Null, msg))
           \/ authLast' = Outcome(AuthLast(req.kind \o "_network_error", Null, Null, FALSE),
                                  Result("thrown", Null, A_fallbackMessage(req.kind)))
        /\ formResumed(req, authLast'.result)
    /\ UNCHANGED <<impl, user, token, authLoading, lsToken, lsUser, defaultsAuth, mounted,
                   sessionCleared, lastSent, pageVars>>

\* A: logout that keeps the apiClient's default Authorization header
A_logout_KeepHeader ==
    /\ impl = "A"
    /\ mounted
    /\ lsToken' = Null
    /\ lsUser' = Null
    /\ user' = Null
    /\ token' = Null
    /\ defaultsAuth' = defaultsAuth
    /\ sessionCleared' = TRUE
    /\ authLast' = AuthLast("logout", token, user, FALSE)
    /\ UNCHANGED <<impl, authLoading, mounted, authInflight, lastSent, pageVars, formVars>>

\* A: logout that keeps the key "user"
A_logout_KeepUserKey ==
    /\ impl = "A"
    /\ mounted
    /\ lsToken' = Null
    /\ lsUser' = lsUser
    /\ user' = Null
    /\ token' = Null
    /\ defaultsAuth' = Null
    /\ sessionCleared' = TRUE
    /\ authLast' = AuthLast("logout", token, user, FALSE)
    /\ UNCHANGED <<impl, authLoading, mounted, authInflight, lastSent, pageVars, formVars>>

\* A: logout
A_logout ==
    /\ impl = "A"
    /\ mounted
    /\ lsToken' = Null
    /\ lsUser' = Null
    /\ user' = Null
    /\ token' = Null
    /\ defaultsAuth' = Null
    /\ sessionCleared' = TRUE
    /\ authLast' = AuthLast("logout", token, user, FALSE)
    /\ UNCHANGED <<impl, authLoading, mounted, authInflight, lastSent, pageVars, formVars>>

\* A: a consumer sends a request through the apiClient of the context value
A_clientRequest ==
    /\ impl = "A"
    /\ mounted
    /\ lastSent' = Sent("client", defaultsAuth, sessionCleared)
    /\ UNCHANGED <<impl, user, token, authLoading, lsToken, lsUser, defaultsAuth, mounted,
                   authInflight, sessionCleared, authLast, pageVars, formVars>>

\* ---- version B ----

\* B: the effect on [token]: a token is verified with the backend (the
\* request carries it), no token ends loading
tokenEffect(tok, pending, ld, cleared, onLoad) ==
    IF tok # Null
    THEN [inflight |-> pending \cup
                       {AuthRequest(FreshId(pending), "verify", Bearer(tok), tok, onLoad)},
          loading |-> ld,
          sent |-> Sent("verify", Bearer(tok), cleared)]
    ELSE [inflight |-> pending, loading |-> FALSE, sent |-> lastSent]

\* B: the effect runs on mount
B_mount ==
    /\ impl = "B"
    /\ ~mounted
    /\ mounted' = TRUE
    /\ LET e == tokenEffect(token, authInflight, authLoading, sessionCleared, TRUE)
       IN /\ authInflight' = e.inflight
          /\ authLoading' = e.loading
          /\ lastSent' = e.sent
    /\ authLast' = AuthLast("load", token, Null, TRUE)
    /\ UNCHANGED <<impl, user, token, lsToken, lsUser, defaultsAuth, sessionCleared, pageVars, formVars>>

\* B: verifyToken without its finally block, on an OK answer
B_verifyOk_NoFinally ==
    /\ impl = "B"
    /\ \E req \in authInflight :
        /\ req.kind = "verify"
        /\ user' = OwnerOf(req.tok)
        /\ authLoading' = authLoading
        /\ authInflight' = authInflight \ {req}
        /\ authLast' = AuthLast("verify_ok", req.tok, OwnerOf(req.tok), req.onLoad)
    /\ UNCHANGED <<impl, token, lsToken, lsUser, defaultsAuth, mounted, sessionCleared,
                   lastSent, pageVars, formVars>>

\* B: /auth/verify answers OK with the token's user
B_verifyOk ==
    /\ impl = "B"
    /\ \E req \in authInflight :
        /\ req.kind = "verify"
        /\ user' = OwnerOf(req.tok)
        /\ authLoading' = FALSE
        /\ authInflight' = authInflight \ {req}
        /\ authLast' = AuthLast("verify_ok", req.tok, OwnerOf(req.tok), req.onLoad)
    /\ UNCHANGED <<impl, token, lsToken, lsUser, defaultsAuth, mounted, sessionCleared,
                   lastSent, pageVars, formVars>>

\* B: a rejected verification that clears the in-memory token and leaves
\* the key "token" in place
B_verifyRejected_KeepsStored ==
    /\ impl = "B"
    /\ \E req \in authInflight :
        /\ req.kind = "verify"
        /\ lsToken' = lsToken
        /\ token' = Null
        /\ authLoading' = FALSE
        /\ authInflight' = authInflight \ {req}
        /\ sessionCleared' = TRUE
        /\ authLast' = AuthLast("verify_rejected", req.tok, Null, req.onLoad)
    /\ UNCHANGED <<impl, user, lsUser, defaultsAuth, mounted, lastSent, pageVars, formVars>>

\* B: /auth/verify answers non-OK, or the request fails
B_verifyRejected ==
    /\ impl = "B"
    /\ \E req \in authInflight :
        /\ req.kind = "verify"
        /\ lsToken' = Null
        /\ token' = Null
        /\ authLoading' = FALSE
        /\ authInflight' = authInflight \ {req}
        /\ sessionCleared' = TRUE
        /\ authLast' = AuthLast("verify_rejected", req.tok, Null, req.onLoad)
    /\ UNCHANGED <<impl, user, lsUser, defaultsAuth, mounted, lastSent, pageVars, formVars>>

\* B: login / signup fetch without an Authorization header
B_loginSend ==
    /\ impl = "B"
    /\ mounted
    /\ Cardinality(authInflight) < MaxAuthInflight
    /\ \E kind \in AuthKinds :
        /\ authInflight' = authInflight \cup
               {AuthRequest(FreshId(authInflight), kind, Null, Null, FALSE)}
        /\ lastSent' = Sent(kind, Null, sessionCleared)
    /\ UNCHANGED <<impl, user, token, authLoading, lsToken, lsUser, defaultsAuth, mounted,
                   sessionCleared, authLast, pageVars, formVars>>

\* B: the backend answers login / signup OK with {token, user}; the new
\* token re-runs the effect on [token]
B_loginOk ==
    /\ impl = "B"
    /\ \E req \in authInflight, s \in Sessions :
        /\ req.kind \in AuthKinds
        /\ lsToken' = s.token
        /\ token' = s.token
        /\ user' = s.user
        /\ sessionCleared' = FALSE
        /\ IF s.token # token
           THEN LET e == tokenEffect(s.token, authInflight \ {req}, authLoading, FALSE, FALSE)
                IN /\ authInflight' = e.inflight
                   /\ authLoading' = e.loading
                   /\ lastSent' = e.sent
           ELSE /\ authInflight' = authInflight \ {req}
                /\ UNCHANGED <<authLoading, lastSent>>
        /\ authLast' = Outcome(AuthLast(req.kind \o "_ok", s.token, s.user, FALSE),
                               Result("returned", "true", B_successMessage(req.kind)))
        /\ formResumed(req, Result("returned", "true", B_successMessage(req.kind)))
    /\ UNCHANGED <<impl, lsUser, defaultsAuth, mounted, pageVars>>

\* B: the backend refuses login / signup (non-OK response)
B_loginRefused ==
    /\ impl = "B"
    /\ \E req \in authInflight :
        /\ req.kind \in AuthKinds
        /\ authInflight' = authInflight \ {req}
        /\ \E msg \in RefusalMessages :
             authLast' = Outcome(AuthLast(req.kind \o "_refused", Null, Null, FALSE),
                                 Result("returned", "false", B_refusalMessage(req.kind, msg)))
        /\ formResumed(req, authLast'.result)
    /\ UNCHANGED <<impl, user, token, authLoading, lsToken, lsUser, defaultsAuth, mounted,
                   sessionCleared, lastSent, pageVars>>

\* B: the login / signup request fails at the network level
B_loginNetworkError ==
    /\ impl = "B"
    /\ \E req \in authInflight :
        /\ req.kind \in AuthKinds
        /\ authInflight' = authInflight \ {req}
        /\ authLast' = Outcome(AuthLast(req.kind \o "_network_error", Null, Null, FALSE),
                               Result("returned", "false", B_networkMessage))
        /\ formResumed(req, Result("returned", "false", B_networkMessage))
    /\ UNCHANGED <<impl, user, token, authLoading, lsToken, lsUser, defaultsAuth, mounted,
                   sessionCleared, lastSent, pageVars>>

\* B: logout; a held token becoming null re-runs the effect on [token]
B_logout ==
    /\ impl = "B"
    /\ mounted
    /\ lsToken' = Null
    /\ token' = Null
    /\ user' = Null
    /\ authLoading' = IF token # Null THEN FALSE ELSE authLoading
    /\ sessionCleared' = TRUE
    /\ authLast' = AuthLast("logout", token, user, FALSE)
    /\ UNCHANGED <<impl, lsUser, defaultsAuth, mounted, authInflight, lastSent, pageVars, formVars>>

\* ---- api.js ----

\* the request interceptor of the API client: the Authorization header is
\* built from the key "token" when the request is sent
\* the interceptor without its `if (token)` test
interceptor_NoGuard(stored) == Bearer(stored)

interceptor(stored) == IF stored # Null THEN Bearer(stored) ELSE Null

\* a request is sent through the API client
apiRequest ==
    /\ mounted
    /\ lastSent' = Sent("api", interceptor(lsToken), sessionCleared)
    /\ UNCHANGED <<impl, user, token, authLoading, lsToken, lsUser, defaultsAuth, mounted,
                   authInflight, sessionCleared, authLast, pageVars, formVars>>

\* ---- the context value and ProtectedRoute ----

\* the value the provider hands to useAuth(): version A exposes user, token
\* and loading; version B exposes user, loading and isAuthenticated and has
\* no token property, so that reading it gives undefined
contextValue ==
    IF impl = "A"
    THEN [user |-> user, token |-> token, loading |-> authLoading,
          isAuthenticated |-> FALSE]
    ELSE [user |-> user, token |-> Null, loading |-> authLoading,
          isAuthenticated |-> user # Null]

\* what ProtectedRoute renders from the context value
ProtectedRoute(value) ==
    IF value.loading THEN "Loading..."
    ELSE IF value.token # Null THEN "children"
    ELSE "Navigate to /login"

\* version A renders the provider's children, ProtectedRoute among them,
\* only once loading is false
childrenRendered == impl = "B" \/ ~authLoading

\* ---- the login form and the route shell (App.jsx) ----

\* the paths the <Routes> of App declares
DeclaredPaths == {"/login", "/signup", "/"}

\* the path of the route-planning page
RoutePlanningPath == "/"

\* what the router renders for a path: the element of the route that
\* matches, nothing when none does
routeElement(path) ==
    CASE path = "/login" -> "Login"
      [] path = "/signup" -> "Signup"
      [] path = "/" -> "EnhancedRouteOptimizer"
      [] OTHER -> "nothing"

\* Login.handleSubmit up to `await login(...)`: the submit button is
\* disabled while loading; empty fields end the submission with a message;
\* otherwise the provider's login sends POST /auth/login (version A through
\* its apiClient with the default header, version B with fetch)
handleSubmit ==
    /\ mounted
    /\ childrenRendered
    /\ ~loginForm.loading
    /\ \E filled \in BOOLEAN :
        IF ~filled
        THEN /\ loginForm' = LoginForm(FALSE, "Please fill in all fields", "error",
                                       loginForm.navigateTo)
             /\ UNCHANGED <<authInflight, lastSent, formAwaits>>
        ELSE /\ Cardinality(authInflight) < MaxAuthInflight
             /\ LET id == FreshId(authInflight)
                    header == IF impl = "A" THEN defaultsAuth ELSE Null
                IN /\ authInflight' = authInflight \cup
                          {AuthRequest(id, "login", header, Null, FALSE)}
                   /\ lastSent' = Sent("login", header, sessionCleared)
                   /\ formAwaits' = id
             /\ loginForm' = LoginForm(TRUE, "", loginForm.messageType,
                                       loginForm.navigateTo)
    /\ UNCHANGED <<impl, user, token, authLoading, lsToken, lsUser, defaultsAuth, mounted,
                   sessionCleared, authLast, pageVars>>

AuthNext ==
    \/ Reload
    \/ A_restoreSession
    \/ A_loginSend
    \/ A_loginOk
    \/ A_loginFailed
    \/ A_logout
    \/ A_clientRequest
    \/ B_mount
    \/ B_verifyOk
    \/ B_verifyRejected
    \/ B_loginSend
    \/ B_loginOk
    \/ B_loginRefused
    \/ B_loginNetworkError
    \/ B_logout
    \/ apiRequest

SpecAuth == AuthInit /\ [][AuthNext]_vars

\* one page load, with the scheduling the runtime guarantees: the mount
\* effect of the mounted provider runs, and a verification request that was
\* sent settles (with an answer or with a failure)
AuthLoadNext ==
    \/ A_restoreSession
    \/ A_loginSend
    \/ A_loginOk
    \/ A_loginFailed
    \/ A_logout
    \/ A_clientRequest
    \/ B_mount
    \/ B_verifyOk
    \/ B_verifyRejected
    \/ B_loginSend
    \/ B_loginOk
    \/ B_loginRefused
    \/ B_loginNetworkError
    \/ B_logout
    \/ apiRequest

SpecAuthLoad ==
    /\ AuthInit
    /\ [][AuthLoadNext]_vars
    /\ WF_vars(A_restoreSession)
    /\ WF_vars(B_mount)
    /\ WF_vars(B_verifyOk \/ B_verifyRejected)

\* the login form under either auth state holder: submissions of the form
\* and the outcomes of their login requests, with logouts in between
LoginNext ==
    \/ A_restoreSession
    \/ B_mount
    \/ B_verifyOk
    \/ B_verifyRejected
    \/ handleSubmit
    \/ A_loginOk
    \/ A_loginFailed
    \/ B_loginOk
    \/ B_loginRefused
    \/ B_loginNetworkError
    \/ A_logout
    \/ B_logout

SpecLogin == AuthInit /\ [][LoginNext]_vars

----------------------------------------------------------------------------
(* The route-planning page under the auth state holder: the page is loaded  *)
(* with or without a stored token and the page sends its requests           *)

SessionInit == AuthInit

SessionNext ==
    \/ A_restoreSession
    \/ B_mount
    \/ B_verifyOk
    \/ B_verifyRejected
    \/ apiRequest
    \/ mounted /\ loadSampleRoute
    \/ mounted /\ OptimizeClick
    \/ OptimizeSucceeded
    \/ OptimizeFailed
    \/ mounted /\ fetchLiveTraffic
    \/ LiveTrafficAnswered
    \/ LiveTrafficFailed

SpecSession == SessionInit /\ [][SessionNext]_vars

----------------------------------------------------------------------------
(* Properties of the route-planning page *)

\* the overlays of one kind the map holds, as a bag
OnMap(kinds) ==
    [o \in {x \in BagToSet(mapLayers) : x.kind \in kinds} |-> CopiesIn(o, mapLayers)]

\* number of route lines (polylines) on the map
NumRouteLines == BagCardinality(OnMap({"line"}))

\* the markers addMarkersToMap creates from the current form state
ExpectedMarkers ==
    SeqToBag((IF Truthy(startCoords.latitude) /\ Truthy(startCoords.longitude)
              THEN <<Marker("start", 0, startCoords)>> ELSE <<>>)
             \o (IF Truthy(endCoords.latitude) /\ Truthy(endCoords.longitude)
                 THEN <<Marker("end", 0, endCoords)>> ELSE <<>>)
             \o WaypointMarkers(waypoints, 1))

\* the route lines and traffic indicators of the current result
ExpectedRouteOverlays ==
    IF HasRoutes(routeResults) THEN SeqToBag(routeOverlays(routeResults, 1)) ELSE EmptyBag

\* C1: once a successful response is the current result and has
\* been applied to the loaded map, the number of route lines on the map equals
\* the number of entries of its routes, whatever edits and Clear Map actions
\* followed.
C1_OverlayCountAlways ==
    (routeResults.src = "backend" /\ mapLoaded)
        => NumRouteLines = Len(routeResults.routes)

\* C2: after a change of the start coordinate, the end coordinate or the
\* waypoint list has been processed on the loaded map, the map shows exactly
\* one marker per fully set start, end and waypoint, and the route lines of
\* the current route result.
C2_RebuildFromState ==
    (mapLoaded /\ pageLast.op = "edit")
        => /\ OnMap({"marker"}) = ExpectedMarkers
           /\ OnMap({"line", "traffic"}) = ExpectedRouteOverlays

\* C3: after a change of the result payload has been processed on the loaded
\* map, the route overlays on the map are those of the new payload and no
\* route overlay of an earlier payload remains, also when the new payload has
\* an empty or absent routes list.
C3_RoutesRedrawn ==
    (mapLoaded /\ pageLast.op \in {"ok", "failed"})
        => OnMap({"line", "traffic"}) = ExpectedRouteOverlays

\* the start or end latitude is a number outside [-90, 90] or the start or
\* end longitude is a number outside [-180, 180]
OutOfRange(start, end) ==
    \/ \E c \in {start, end} :
          /\ ~isNaN(parseFloat(c.latitude))
          /\ (parseFloat(c.latitude) < -900000 \/ parseFloat(c.latitude) > 900000)
    \/ \E c \in {start, end} :
          /\ ~isNaN(parseFloat(c.longitude))
          /\ (parseFloat(c.longitude) < -1800000 \/ parseFloat(c.longitude) > 1800000)

\* C5: while the start or end latitude is outside [-90, 90] or the start or
\* end longitude is outside [-180, 180], no step issues an /optimize-route
\* request: optimizeRoute returns before the fetch.
C5_RangeRejected ==
    [][OutOfRange(startCoords, endCoords)
         => (nextId' = nextId /\ inflight' \subseteq inflight /\ loading' = loading)]_vars

C5_Witness ==
    /\ pageLast.op = "rejected"
    /\ startCoords.latitude = "45"
    /\ startCoords.longitude = "45"
    /\ endCoords.latitude = "45"
    /\ endCoords.longitude = "181"
    /\ nextId = 0

\* C6: when an /optimize-route call fails (network error or non-OK response)
\* the route result becomes the mock result: exactly two routes, each running
\* from the submitted start to the submitted end, with
\* recommended_route_index 0; loading is false again.
C6_MockFallback ==
    [][pageLast'.op = "failed"
         => \E req \in inflight :
              /\ req.id = pageLast'.rid
              /\ req \notin inflight'
              /\ HasRoutes(routeResults')
              /\ Len(routeResults'.routes) = 2
              /\ routeResults'.rec = <<0>>
              /\ \A i \in 1..2 :
                    LET g == routeResults'.routes[i].geometry
                    IN /\ g[1] = <<req.startLng, req.startLat>>
                       /\ g[Len(g)] = <<req.endLng, req.endLat>>
              /\ loading' = FALSE]_vars

C6_Witness ==
    /\ pageLast.op = "failed"
    /\ routeResults.src = "mock"
    /\ routeResults.routes[1].geometry = << <<1000000, 450000>>, <<450000, 450000>> >>
    /\ ~loading

\* C8: the Re-optimize button is not guarded by loading: whenever a result is
\* displayed and a request can still be issued, Re-optimize is available, also
\* while loading is true; two requests in flight at once is reachable.
C8_ReoptimizeUnguarded ==
    (routeResults # NullResult /\ nextId < callBudget) => ENABLED ReoptimizeClick

C8_Witness ==
    /\ Cardinality(inflight) >= 2
    /\ loading
    /\ pageLast.op = "sent"

----------------------------------------------------------------------------
(* Properties of the auth state holder *)

\* C4: when the auth state holder loads with a token in local storage it
\* sends a verification request carrying that token, and when a
\* verification sent on load is rejected (non-OK response or failed
\* request) the token is removed from local storage and the in-memory token
\* and user are both null
C4_VerifyOnLoad ==
    /\ (authLast.op = "load" /\ authLast.tok # Null)
         => \E req \in authInflight :
               req.kind = "verify" /\ req.auth = Bearer(authLast.tok)
    /\ (authLast.op = "verify_rejected" /\ authLast.onLoad)
         => (lsToken = Null /\ token = Null /\ user = Null)

\* C7: a request sent while the session token is cleared (after a logout or
\* a rejected verification, before the next successful login or signup)
\* carries no Authorization header
C7_NoHeaderAfterClear == lastSent.afterClear => lastSent.auth = Null

\* a request went out through version A's apiClient after a logout that
\* ended a session
C7_Witness ==
    /\ impl = "A"
    /\ authLast.op = "logout"
    /\ authLast.tok # Null
    /\ lastSent.afterClear
    /\ lastSent.kind = "client"

\* C9: right after a successful login or signup the key "token" holds the
\* token of the response, and the in-memory token and user are the token
\* and user of that response
C9_SessionCreated ==
    authLast.op \in {"login_ok", "signup_ok"}
        => (lsToken = authLast.tok /\ token = authLast.tok /\ user = authLast.usr)

\* a signup succeeded over an existing session of another user
C9_Witness ==
    /\ authLast.op = "signup_ok"
    /\ authLast.tok = "t2"
    /\ token = "t2"
    /\ user = "u2"
    /\ \E req \in authInflight : req.kind = "verify" /\ req.tok = "t1"

\* C10: right after logout the in-memory token and user are null and
\* neither the key "token" nor the key "user" holds a value
C10_SessionDestroyed ==
    authLast.op = "logout"
        => (token = Null /\ user = Null /\ lsToken = Null /\ lsUser = Null)

\* a logout ended a session that held a token and a user
C10_Witness ==
    /\ authLast.op = "logout"
    /\ authLast.tok # Null
    /\ authLast.usr # Null
    /\ token = Null

\* C11: every request sent through the API client of api.js carries
\* Authorization: Bearer <t>, t being the value of the key "token" at the
\* moment the request is sent, and carries no Authorization header when the
\* key holds no value
C11_HeaderFromStorage ==
    [][(lastSent' # lastSent /\ lastSent'.kind = "api")
         => lastSent'.auth = (IF lsToken = Null THEN Null ELSE "Bearer " \o lsToken)]_vars

\* a request went through the API client with the token of a later signup,
\* after the token found on load
C11_Witness ==
    /\ lastSent.kind = "api"
    /\ lastSent.auth = "Bearer t2"
    /\ lsToken = "t2"
    /\ authLast.op = "signup_ok"

\* C12: every request sent while the key "token" holds a value, the
\* /optimize-route and /traffic/live requests of the route-planning page
\* included, carries that token as its bearer Authorization header
C12_TokenOnEveryRequest ==
    [][(lastSent' # lastSent /\ lsToken' # Null)
         => lastSent'.auth = "Bearer " \o lsToken']_vars

\* a latitude within [-90, 90] and a longitude within [-180, 180]
InRange(lat, lng) ==
    /\ lat >= -900000 /\ lat <= 900000
    /\ lng >= -1800000 /\ lng <= 1800000

\* C13: every coordinate in the body of a submitted /optimize-route request
\* (start, end and each waypoint) is within range: latitude in [-90, 90] and
\* longitude in [-180, 180]
C13_BodyInRange ==
    [][nextId' > nextId
         => LET body == requestData(startCoords, endCoords, waypoints)
            IN /\ InRange(body.startLat, body.startLng)
               /\ InRange(body.endLat, body.endLng)
               /\ \A i \in 1..Len(body.waypoints) :
                     InRange(body.waypoints[i][1], body.waypoints[i][2])]_vars

\* C14: when a login or signup request fails at the network level the
\* operation hands its caller a result with success false and a message,
\* and the step leaves the in-memory token and user and both keys of local
\* storage as they were
C14_NetworkFailure ==
    [][(authLast' # authLast /\ authLast'.op \in {"login_network_error", "signup_network_error"})
         => /\ authLast'.result.how = "returned"
            /\ authLast'.result.success = "false"
            /\ authLast'.result.message # Null
            /\ UNCHANGED <<token, user, lsToken, lsUser>>]_vars

\* C15: a network failure and a non-OK response of the same /optimize-route
\* request leave the component in the same state: whichever of the two a
\* failure step was, routeResults and loading after it are what the other
\* kind would have left, and only the alert text differs
C15_FailureKindsAgree ==
    [][(pageLast' # pageLast /\ pageLast'.op = "failed")
         => \E req \in inflight :
              /\ req.id = pageLast'.rid
              /\ \A kind \in {"network", "http"} :
                    /\ routeResults' = catchBlock(req, kind, routeResults).routeResults
                    /\ loading' = catchBlock(req, kind, routeResults).loading
              /\ catchBlock(req, "network", routeResults).alert
                    # catchBlock(req, "http", routeResults).alert]_vars

\* the second request failed while the result of the first was displayed
C15_Witness ==
    /\ pageLast.op = "failed"
    /\ pageLast.rid = 2
    /\ routeResults.src = "mock"
    /\ inflight = {}
    /\ ~loading

\* the route lines the map holds
RouteLines == {o \in BagToSet(mapLayers) : o.kind = "line"}

\* C16: each route line on the map belongs to a route of the current result
\* and is green (#10b981) if its index equals recommended_route_index,
\* otherwise red (#ef4444) if the route's average traffic level is greater
\* than 0.7, yellow (#f59e0b) if greater than 0.4 and blue (#3b82f6)
\* otherwise, a missing level counting as 0
C16_RouteColors ==
    \A o \in RouteLines :
        /\ o.idx < Len(routeResults.routes)
        /\ LET avg == routeResults.routes[o.idx + 1].avg
               level == IF avg = <<>> THEN 0 ELSE avg[1]
           IN o.color = (IF routeResults.rec = <<o.idx>> THEN "#10b981"
                         ELSE IF level > 7 THEN "#ef4444"
                         ELSE IF level > 4 THEN "#f59e0b"
                         ELSE "#3b82f6")

\* a recommended route of heavy traffic is drawn green beside a yellow line
\* of a route at exactly 0.7
C16_Witness ==
    /\ routeResults.rec = <<1>>
    /\ Len(routeResults.routes) = 2
    /\ routeResults.routes[1].avg = <<7>>
    /\ routeResults.routes[2].avg = <<8>>
    /\ \E o \in RouteLines : o.idx = 0 /\ o.color = "#f59e0b"
    /\ \E o \in RouteLines : o.idx = 1 /\ o.color = "#10b981"

\* C17: among the route lines on the map exactly the one whose index equals
\* recommended_route_index is solid with weight 6, every other one is dashed
\* with weight 4; at most one line is solid, and none when the index matches
\* no route
C17_RecommendedLine ==
    /\ \A o \in RouteLines :
          IF routeResults.rec = <<o.idx>>
          THEN o.weight = 6 /\ ~o.dashed
          ELSE o.weight = 4 /\ o.dashed
    /\ BagCardinality([o \in {x \in RouteLines : ~x.dashed} |-> CopiesIn(o, mapLayers)]) <= 1
    /\ (\A i \in 0..(Len(routeResults.routes) - 1) : routeResults.rec # <<i>>)
          => \A o \in RouteLines : o.dashed

\* two lines are drawn for a result whose recommended index matches no
\* route: both dashed, one of them red
C17_Witness ==
    /\ routeResults.rec = <<MaxRoutes>>
    /\ Len(routeResults.routes) = 2
    /\ Cardinality(RouteLines) = 2
    /\ \A o \in RouteLines : o.dashed /\ o.weight = 4
    /\ \E o \in RouteLines : o.color = "#ef4444"

\* C18: a rendered ProtectedRoute shows the loading placeholder while the
\* auth state is loading, renders its children when loading is finished and
\* the auth state holder holds a session token (as it does after a
\* successful login), and redirects to /login when loading is finished and
\* no token is held
C18_ProtectedRoute ==
    childrenRendered
        => /\ authLoading => ProtectedRoute(contextValue) = "Loading..."
           /\ (~authLoading /\ token # Null)
                 => ProtectedRoute(contextValue) = "children"
           /\ (~authLoading /\ token = Null)
                 => ProtectedRoute(contextValue) = "Navigate to /login"

\* C19: the loading flag of the auth state holder starts true, becomes false
\* on every load path (no stored token, stored token accepted, rejected, or
\* the verification request failing), and once false it stays false for the
\* rest of the page load
C19_LoadingEnds ==
    /\ authLoading = TRUE
    /\ <>(authLoading = FALSE)
    /\ [][~authLoading => ~authLoading']_vars

\* loading ended on the path of a stored token whose verification on load
\* was rejected
C19_Witness ==
    /\ impl = "B"
    /\ authLoading = FALSE
    /\ authLast.op = "verify_rejected"
    /\ authLast.onLoad
    /\ authLast.tok = "t1"
    /\ authInflight = {}

\* C20: after version A has loaded with a token in local storage the
\* in-memory token equals the stored token, the user is the user whose JSON
\* text the key "user" holds, or null when the key is missing or holds
\* text that is not JSON, and loading has completed
C20_Rehydrated ==
    (impl = "A" /\ authLast.op = "load" /\ lsToken # Null)
        => /\ token = lsToken
           /\ user = (IF \E u \in Users : lsUser = JSONstringify(u)
                      THEN CHOOSE u \in Users : lsUser = JSONstringify(u)
                      ELSE Null)
           /\ authLoading = FALSE

\* version A has loaded with a stored token and a stored user that is not
\* JSON
C20_Witness ==
    /\ impl = "A"
    /\ authLast.op = "load"
    /\ token = "t1"
    /\ lsUser = Malformed
    /\ user = Null
    /\ authLoading = FALSE

----------------------------------------------------------------------------
(* Further properties of the route-planning page *)

\* C21: a map click sets the start coordinate when the start latitude is
\* empty; otherwise it sets the end coordinate when the end latitude is
\* empty; otherwise it changes nothing. A click never replaces a start or
\* end coordinate whose latitude is set and never changes waypoints or the
\* route result
C21_ClickFillsFirstEmpty ==
    [][pageLast'.op = "click"
         => /\ \E p \in ClickPoints :
                  LET c == [latitude |-> toFixed6(p[1]), longitude |-> toFixed6(p[2])]
                  IN IF startCoords.latitude = ""
                     THEN startCoords' = c /\ endCoords' = endCoords
                     ELSE IF endCoords.latitude = ""
                     THEN endCoords' = c /\ startCoords' = startCoords
                     ELSE UNCHANGED <<startCoords, endCoords, waypoints, routeResults,
                                      loading, markersRef, routeLayersRef, mapLayers>>
            /\ startCoords.latitude # "" => startCoords' = startCoords
            /\ endCoords.latitude # "" => endCoords' = endCoords
            /\ waypoints' = waypoints
            /\ routeResults' = routeResults]_vars

\* a click filled the end coordinate beside a typed start coordinate, which
\* it left alone
C21_Witness ==
    /\ pageLast.op = "click"
    /\ startCoords = [latitude |-> "45", longitude |-> "100"]
    /\ endCoords = [latitude |-> "45.000000", longitude |-> "45.000000"]
    /\ mapLoaded

\* a start or end field is missing, is not a number, or is out of range
Rejectable(start, end) ==
    \/ \E c \in {start, end} : c.latitude = "" \/ c.longitude = ""
    \/ \E c \in {start, end} :
          isNaN(parseFloat(c.latitude)) \/ isNaN(parseFloat(c.longitude))
    \/ OutOfRange(start, end)

\* C22: whenever optimizeRoute is called on an input it rejects (a missing
\* start or end field, a non-numeric value, or an out-of-range value), no
\* request is sent and startCoords, endCoords, waypoints, routeResults and
\* loading keep their values
C22_RejectionChangesNothing ==
    [][(pageLast'.op \in {"rejected", "sent"} /\ Rejectable(startCoords, endCoords))
         => /\ nextId' = nextId
            /\ inflight' = inflight
            /\ lastSent' = lastSent
            /\ UNCHANGED <<startCoords, endCoords, waypoints, routeResults, loading>>]_vars

\* a Re-optimize was rejected while a request was in flight and a result
\* was displayed: the start latitude had been emptied
C22_Witness ==
    /\ pageLast.op = "rejected"
    /\ startCoords.latitude = ""
    /\ routeResults # NullResult
    /\ loading
    /\ inflight # {}

\* C23: every optimize action that passes validation ends with loading
\* false and a non-null routeResults, whether the request succeeds, returns
\* a non-OK response or fails at the network level: once every request that
\* was sent has settled, loading is false and a result is held
C23_EndsWithResult ==
    (nextId > 0 /\ inflight = {}) => (loading = FALSE /\ routeResults # NullResult)

\* C24: the loading flag is true whenever at least one /optimize-route
\* request is in flight, for every interleaving of optimize and re-optimize
\* actions and request completions
C24_LoadingWhileInFlight == inflight # {} => loading = TRUE

\* C25: when several optimize requests overlap, once all of them have
\* settled the displayed routeResults is the outcome of the most recently
\* started request, whatever order the responses arrive in: the response
\* applied last, which is the one displayed, is that of the request with
\* the highest id
C25_LatestRequestWins ==
    (inflight = {} /\ pageLast.op \in {"ok", "failed"}) => pageLast.rid = nextId

\* C26: no overlay handle is leaked: in every reachable state the markers,
\* route lines and traffic indicators on the map are exactly the handles
\* recorded in markersRef and routeLayersRef, each as often as it is
\* recorded, after any sequence of coordinate changes, result changes and
\* Clear Map actions
C26_NoLeakedOverlay ==
    /\ mapLayers = SeqToBag(markersRef) (+) SeqToBag(routeLayersRef)
    /\ \A i \in 1..Len(markersRef) : markersRef[i].kind = "marker"
    /\ \A i \in 1..Len(routeLayersRef) : routeLayersRef[i].kind \in {"line", "traffic"}

\* the map holds two markers, two route lines and a traffic indicator of a
\* second result, drawn over those of a first
C26_Witness ==
    /\ mapLoaded
    /\ pageLast = Last("ok", 2)
    /\ Len(markersRef) = 2
    /\ Len(routeLayersRef) = 3
    /\ BagCardinality(mapLayers) = 5
    /\ \E o \in BagToSet(mapLayers) : o.kind = "traffic"

----------------------------------------------------------------------------
(* Further properties of the auth state holder *)

\* C27: in the auth state holder that verifies tokens (version B),
\* isAuthenticated implies that a session token is held: in every state
\* reached after pending requests have settled, if the user is non-null
\* then the in-memory token is non-null
C27_AuthenticatedHoldsToken ==
    (impl = "B" /\ mounted /\ authInflight = {} /\ contextValue.isAuthenticated)
        => token # Null

\* C28: the in-memory token and the token in local storage agree: after an
\* auth operation (load, login, signup, verification, logout) has
\* completed, the in-memory token equals the value of the key "token",
\* both being absent together
C28_TokenAgreesWithStorage ==
    authLast.op \notin {"init", "reload"} => token = lsToken

\* version B: the verification of a token obtained by a login was rejected
\* while a later signup's token was held; both copies are gone
C28_Witness ==
    /\ impl = "B"
    /\ authLast.op = "verify_rejected"
    /\ ~authLast.onLoad
    /\ authLast.tok = "t1"
    /\ user = "u2"
    /\ token = Null
    /\ lsToken = Null

\* a message is displayed: {message && (...)} renders for a non-empty string
MessageShown(form) == form.message # Null /\ form.message # ""

\* C29: every submission of the login form returns the form to a
\* non-loading state with a message shown: once the login of a submission
\* has settled (with a success, a refusal or a failure), the form's loading
\* flag is false, the submit button enabled again, and a message is shown
C29_FormSettles ==
    (loginForm # LoginFormInit /\ formAwaits = 0)
        => (loginForm.loading = FALSE /\ MessageShown(loginForm))

\* C30: after a successful login the user reaches the route-planning page:
\* the path the login form navigates to on success is one of the paths the
\* route shell declares, that of the route-planning page
C30_NavigatesToDeclaredPath ==
    authLast.op = "login_ok"
        => /\ loginForm.navigateTo \in DeclaredPaths
           /\ routeElement(loginForm.navigateTo) = routeElement(RoutePlanningPath)

====
